---- MODULE Spec2Model ----
(***************************************************************************)
(* The view components and helpers of the cluster console that carry       *)
(* behaviour: the BMC host-addition form (BMCForm), the cluster-details    *)
(* wizard step (ClusterDeploymentDetailsStep), the alerts context          *)
(* (useAlerts), the Router's route table and the agent-location selector   *)
(* helpers.  One component is mounted per behaviour (variable mounted);    *)
(* the variables of the others keep their unmounted values.                *)
(*                                                                         *)
(* Both forms are Formik (v2) forms.  Formik's submitForm sets             *)
(* isSubmitting, validates the current values against the schema, calls    *)
(* onSubmit only when they pass, and clears isSubmitting when the promise  *)
(* onSubmit returned settles.  Schema validation is a promise chain with   *)
(* no timer or I/O in it, so it runs to completion before the next user    *)
(* event: a change and its validation are one step, and isValidating is    *)
(* false whenever a user event is handled.                                 *)
(***************************************************************************)
EXTENDS Integers, Sequences, FiniteSets, TLC

VARIABLES
  mounted,        \* the component the behaviour renders
  values,         \* Formik state.values of the mounted form
  isSubmitting,   \* Formik state.isSubmitting of the mounted form
  runs,           \* the invocations of the mounted form's handleSubmit that await
  last,           \* the invocation of handleSubmit that ended most recently
  hasDHCP,        \* BMCForm prop
  error,          \* BMCForm: React.useState() error
  provider,       \* details step: the AlertsContext provider above it, if any
  alertsContext,  \* details step: what useAlerts() gave it
  initialValues,  \* details step: the memoised initialValues
  hasErrors,      \* details step: Formik state.errors is not empty
  currentStepId,  \* ClusterDeploymentWizardContext.currentStepId
  isSingleClusterMode,  \* Router: isSingleClusterMode()
  children,       \* Router: the paths of the child routes
  location,       \* Router: the pathname, a sequence of segments
  view,           \* Router: what the Switch rendered for location
  locations,      \* selector helpers: the locations handed in
  expressions,    \* selector helpers: the match expressions built
  found           \* selector helpers: the locations read back

formikVars == <<values, isSubmitting, runs, last>>
bmcVars == <<hasDHCP, error>>
detailsVars == <<provider, alertsContext, initialValues, hasErrors, currentStepId>>
routerVars == <<isSingleClusterMode, children, location, view>>
selectorVars == <<locations, expressions, found>>
vars == <<mounted, formikVars, bmcVars, detailsVars, routerVars, selectorVars>>

(***************************************************************************)
(* Bounds of the model.                                                    *)
(***************************************************************************)
MaxPending == 2     \* invocations of one handleSubmit awaiting at a time
MaxRows == 2        \* macMapping rows of the rendered form
MaxInputRows == 2   \* macMapping rows of a value handed to handleSubmit directly

(***************************************************************************)
(* JavaScript values.                                                      *)
(***************************************************************************)
Undefined == [t |-> "undefined"]
Str(s) == [t |-> "string", s |-> s]
Err(m) == [t |-> "Error", message |-> Str(m)]
Unmounted == [t |-> "unmounted"]
NoRun == [status |-> "none"]

\* What an external call can throw or reject with: an Error, a value that is
\* no Error (a string: its .message is undefined), or nothing at all.
RejectionValues == {Err("Request failed"), Str("timeout"), Undefined}

\* What calling onCreate or onSaveDetails does before handleSubmit awaits: it
\* returns a promise, or throws.
ReturnsPromise == [t |-> "promise"]
CallOutcomes == {ReturnsPromise} \cup RejectionValues

\* e.message: reading a property of undefined throws a TypeError.
Message(e) ==
  CASE e.t = "Error" -> [threw |-> FALSE, value |-> e.message]
    [] e.t = "undefined" -> [threw |-> TRUE, value |-> Undefined]
    [] OTHER -> [threw |-> FALSE, value |-> Undefined]

\* JavaScript truthiness of the values the error state can hold.
Truthy(v) == v.t = "string" /\ v.s # ""

\* array.splice(i, 1)
RemoveAt(seq, i) == SubSeq(seq, 1, i - 1) \o SubSeq(seq, i + 1, Len(seq))

(***************************************************************************)
(* BMCForm: the form values.  hostname, username, password and             *)
(* bootMACAddress are read by neither handleSubmit nor getNMState: the     *)
(* model fills them in together with bmcAddress.                           *)
(***************************************************************************)
Macs == {"", "02:00:00:00:00:01"}
Nics == {"", "eth0", "eth1"}
TypedNics == {"", "eth0"}
GoodYaml == "interfaces: []"
BadYaml == "interfaces: ["
NmStateTexts == {"", GoodYaml, BadYaml}
BmcAddresses == {"", "bmc.example.com"}
MacRows == [macAddress : Macs, name : Nics]
TypedRows == [macAddress : Macs, name : TypedNics]
InfraEnv == [name |-> "infraenv-1", namespace |-> "ns-1"]

emptyValues ==
  [bmcAddress |-> "", nmState |-> "",
   macMapping |-> <<[macAddress |-> "", name |-> ""]>>]

RowSeqs(n) == UNION {[1..k -> MacRows] : k \in 1..n}

AddBmcValues(n) ==
  [bmcAddress : BmcAddresses, nmState : NmStateTexts, macMapping : RowSeqs(n)]

\* yaml.load: undefined for an empty document, the parsed object for a
\* well-formed one, a thrown YAMLException otherwise.
yamlLoad(text) ==
  CASE text = "" -> [threw |-> FALSE, value |-> Undefined]
    [] text = GoodYaml -> [threw |-> FALSE, value |-> [t |-> "object", yaml |-> text]]
    [] OTHER -> [threw |-> TRUE, value |-> Err("unexpected end of the stream")]

\* a filter that keeps a row for its name alone
KeepRowNameOnly(m) == m.name # ""

\* the filter predicate of spec.interfaces
KeepRow(m) == m.macAddress # "" /\ m.name # ""

getNMState(v, infraEnv) ==
  LET config == yamlLoad(v.nmState)
  IN IF config.threw
     THEN config
     ELSE [threw |-> FALSE,
           value |-> [t |-> "NMStateConfig",
                      generateName |-> infraEnv.name,
                      namespace |-> infraEnv.namespace,
                      labels |-> [infraEnv |-> infraEnv.name, bmcMAC |-> v.bmcAddress],
                      config |-> config.value,
                      interfaces |-> SelectSeq(v.macMapping, KeepRow)]]

\* validationSchema (Formik hands Yup undefined for an empty string, so
\* required() rejects it)
validationSchema(v) ==
  /\ v.bmcAddress # ""
  /\ v.nmState # ""
  /\ \A i \in 1..Len(v.macMapping) :
       v.macMapping[i].macAddress # "" /\ v.macMapping[i].name # ""

\* Formik: dirty, and isValid under isInitialValid={false}.  The errors are
\* those of the current values, because every change validates.
BmcDirty == values # emptyValues
BmcIsValid == BmcDirty /\ validationSchema(values)

\* a Create button that ignores isSubmitting
CreateDisabledWhenInvalid == ~BmcIsValid

\* <Button onClick={submitForm} isDisabled={isSubmitting || !isValid}>
CreateDisabled == isSubmitting \/ ~BmcIsValid

(***************************************************************************)
(* BMCForm.handleSubmit.  A run record follows one invocation:             *)
(*   status   "pending"  awaiting onCreate                                 *)
(*            "done"     onCreate resolved and onClose was called          *)
(*            "caught"   the catch block ran to its end                    *)
(*            "threw"    the catch block itself threw: the promise of      *)
(*                       handleSubmit is rejected                          *)
(*   failedIn which call threw or rejected, failure what it threw          *)
(*   setError the arguments of the run's setError calls, in order          *)
(***************************************************************************)
NewRun(v) ==
  [status |-> "pending", failedIn |-> "none", failure |-> Undefined,
   values |-> v, nmState |-> Undefined, onCreateCalls |-> 0, onCloseCalls |-> 0,
   setError |-> <<Undefined>>]

\* a catch block that closes the dialog as well
CatchBlockClosing(run, cur, where, e) ==
  LET m == Message(e)
  IN IF m.threw
     THEN [error |-> cur,
           run |-> [run EXCEPT !.status = "threw", !.failedIn = where, !.failure = e]]
     ELSE [error |-> m.value,
           run |-> [run EXCEPT !.status = "caught", !.failedIn = where, !.failure = e,
                               !.setError = Append(@, m.value),
                               !.onCloseCalls = @ + 1]]

\* catch (e) { setError(e.message); }: the run and the error state after it.
\* cur is the error state when the catch block is entered.
CatchBlock(run, cur, where, e) ==
  LET m == Message(e)
  IN IF m.threw
     THEN [error |-> cur,
           run |-> [run EXCEPT !.status = "threw", !.failedIn = where, !.failure = e]]
     ELSE [error |-> m.value,
           run |-> [run EXCEPT !.status = "caught", !.failedIn = where, !.failure = e,
                               !.setError = Append(@, m.value)]]

\* const nmState = hasDHCP ? undefined : getNMState(values, infraEnv);
NmStateArg(v) ==
  IF hasDHCP THEN [threw |-> FALSE, value |-> Undefined] ELSE getNMState(v, InfraEnv)

\* One step of a handler ends in `after`: the run awaits, or it has ended.
\* Formik clears isSubmitting when the promise of handleSubmit settles.
Proceed(before, after) ==
  /\ runs' = IF after.status = "pending" THEN Append(before, after) ELSE before
  /\ last' = IF after.status = "pending" THEN last ELSE after
  /\ isSubmitting' = (after.status = "pending")

\* handleSubmit up to its await: setError(undefined), the NMState argument,
\* the call of onCreate, which returns a promise or throws (sync).
handleSubmit(v, sync) ==
  LET nm == NmStateArg(v)
      called == [NewRun(v) EXCEPT !.nmState = nm.value, !.onCreateCalls = 1]
      after ==
        IF nm.threw THEN CatchBlock(NewRun(v), Undefined, "getNMState", nm.value)
        ELSE IF sync = ReturnsPromise THEN [error |-> Undefined, run |-> called]
        ELSE CatchBlock(called, Undefined, "onCreate", sync)
  IN /\ error' = after.error
     /\ Proceed(runs, after.run)

\* await onCreate(...) resolved: onClose()
AfterCreate(run) == [run EXCEPT !.status = "done", !.onCloseCalls = @ + 1]

(***************************************************************************)
(* BMCForm: the user's events and the completions of onCreate.             *)
(***************************************************************************)
BmcShown == mounted = "BMCForm"

SetBmcAddress ==
  /\ BmcShown
  /\ \E a \in BmcAddresses : values' = [values EXCEPT !.bmcAddress = a]
  /\ UNCHANGED <<mounted, bmcVars, isSubmitting, runs, last, detailsVars, routerVars, selectorVars>>

\* the NMState code field and the MacMapping rows are rendered when !hasDHCP
SetNmState ==
  /\ BmcShown /\ ~hasDHCP
  /\ \E t \in NmStateTexts : values' = [values EXCEPT !.nmState = t]
  /\ UNCHANGED <<mounted, bmcVars, isSubmitting, runs, last, detailsVars, routerVars, selectorVars>>

SetMacRow ==
  /\ BmcShown /\ ~hasDHCP
  /\ \E i \in 1..Len(values.macMapping), m \in TypedRows :
       values' = [values EXCEPT !.macMapping[i] = m]
  /\ UNCHANGED <<mounted, bmcVars, isSubmitting, runs, last, detailsVars, routerVars, selectorVars>>

\* "Add more": push({ macAddress: '', name: '' })
PushMacRow ==
  /\ BmcShown /\ ~hasDHCP
  /\ Len(values.macMapping) < MaxRows
  /\ values' = [values EXCEPT !.macMapping = Append(@, [macAddress |-> "", name |-> ""])]
  /\ UNCHANGED <<mounted, bmcVars, isSubmitting, runs, last, detailsVars, routerVars, selectorVars>>

\* the minus icon, rendered for every row but the first: remove(index)
RemoveMacRow ==
  /\ BmcShown /\ ~hasDHCP
  /\ \E i \in 2..Len(values.macMapping) :
       values' = [values EXCEPT !.macMapping = RemoveAt(@, i)]
  /\ UNCHANGED <<mounted, bmcVars, isSubmitting, runs, last, detailsVars, routerVars, selectorVars>>

\* Create: submitForm validates and, the values passing, calls handleSubmit
ClickCreate ==
  /\ BmcShown /\ ~CreateDisabled
  /\ Len(runs) < MaxPending
  /\ IF validationSchema(values)
     THEN \E sync \in CallOutcomes : handleSubmit(values, sync)
     ELSE UNCHANGED <<error, isSubmitting, runs, last>>
  /\ UNCHANGED <<mounted, hasDHCP, values, detailsVars, routerVars, selectorVars>>

\* the promise of onCreate resolves
OnCreateResolved ==
  /\ BmcShown
  /\ \E i \in 1..Len(runs) : Proceed(RemoveAt(runs, i), AfterCreate(runs[i]))
  /\ UNCHANGED <<mounted, bmcVars, values, detailsVars, routerVars, selectorVars>>

\* the promise of onCreate rejects with e: the catch block
OnCreateRejected ==
  /\ BmcShown
  /\ \E i \in 1..Len(runs), e \in RejectionValues :
       LET after == CatchBlock(runs[i], error, "onCreate", e)
       IN /\ error' = after.error
          /\ Proceed(RemoveAt(runs, i), after.run)
  /\ UNCHANGED <<mounted, hasDHCP, values, detailsVars, routerVars, selectorVars>>

\* the alert's close button: actionClose={() => setError(undefined)}
DismissError ==
  /\ BmcShown /\ Truthy(error)
  /\ error' = Undefined
  /\ UNCHANGED <<mounted, hasDHCP, formikVars, detailsVars, routerVars, selectorVars>>

BmcNext ==
  \/ SetBmcAddress \/ SetNmState \/ SetMacRow \/ PushMacRow \/ RemoveMacRow
  \/ ClickCreate \/ OnCreateResolved \/ OnCreateRejected \/ DismissError

InitBMCForm ==
  /\ mounted = "BMCForm"
  /\ hasDHCP \in BOOLEAN
  /\ values = emptyValues
  /\ error = Undefined
  /\ isSubmitting = FALSE
  /\ runs = <<>>
  /\ last = NoRun

(***************************************************************************)
(* The alerts context.                                                     *)
(***************************************************************************)
\* React.createContext({ alerts: [], addAlert: () => null, ... })
AlertsContext == [t |-> "context", from |-> "createContext default"]

\* <AlertsContext.Provider value={{ alerts, addAlert, removeAlert, clearAlerts }}>
AlertsContextProvider == [t |-> "context", from |-> "AlertsContextProvider"]

Providers == {"AlertsContextProvider", "none"}

\* React.useContext: the value of the nearest provider above the component,
\* the context's default value when there is none.
useContext(defaultValue, above) ==
  IF above = "AlertsContextProvider" THEN AlertsContextProvider ELSE defaultValue

useAlerts(above) ==
  LET context == useContext(AlertsContext, above)
  IN IF context = Undefined
     THEN [threw |-> TRUE,
           value |-> Err("useAlerts must be used within AlertsContextProvider")]
     ELSE [threw |-> FALSE, value |-> context]

(***************************************************************************)
(* ClusterDeploymentDetailsStep.  The form values are the cluster name;    *)
(* the schema, which is not part of these sources, is taken to require it. *)
(***************************************************************************)
ClusterNames == {"", "cluster-1", "cluster-2"}
DetailsValues == [name : ClusterNames]

getClusterDetailsValidationSchema(v) == v.name # ""

DetailsStepId == "cluster-details"
HostsSelectionStepId == "hosts-selection"

\* Formik: dirty, and isValid without isInitialValid (no error recorded yet)
dirty == values # initialValues
isValid == ~hasErrors
isValidating == FALSE

\* isNextDisabled={!isValid || isValidating || isSubmitting}
isNextDisabled == ~isValid \/ isValidating \/ isSubmitting

\* ClusterDeploymentWizardFooter, which is not part of these sources: its
\* Next button takes presses unless isNextDisabled
FooterNextEnabled(disabled) == ~disabled

\* the step renders while the wizard is on it and its render did not throw
DetailsShown ==
  /\ mounted = "ClusterDeploymentDetailsStep"
  /\ ~alertsContext.threw
  /\ currentStepId = DetailsStepId

(***************************************************************************)
(* ClusterDeploymentDetailsStep.handleSubmit.  A run record follows one    *)
(* invocation: status "pending" (awaiting onSaveDetails), "done" (it       *)
(* resolved and next() ran) or "caught" (the catch block ran); addAlert    *)
(* and setCurrentStepId are the arguments of the run's calls of them.      *)
(***************************************************************************)
NewSaveRun(v) ==
  [status |-> "pending", failure |-> Undefined, values |-> v,
   onSaveDetailsCalls |-> 0, setCurrentStepId |-> <<>>, addAlert |-> <<>>]

\* const next = () => setCurrentStepId('hosts-selection');
next(run, step) ==
  [step |-> HostsSelectionStepId,
   run |-> [run EXCEPT !.setCurrentStepId = Append(@, HostsSelectionStepId)]]

\* await onSaveDetails(values) resolved: next()
AfterSave(run, step) ==
  LET n == next(run, step) IN [step |-> n.step, run |-> [n.run EXCEPT !.status = "done"]]

\* a catch block that moves on to the next step as well
SaveCatchBlockAdvancing(run, step, e) ==
  LET n == next(run, step)
  IN [step |-> n.step,
      run |-> [n.run EXCEPT !.status = "caught", !.failure = e,
                 !.addAlert = Append(@, [title |-> "Failed to save ClusterDeployment",
                                         message |-> e])]]

\* a catch block that calls onSaveDetails a second time
SaveCatchBlockRetrying(run, step, e) ==
  [step |-> step,
   run |-> [run EXCEPT !.status = "caught", !.failure = e,
              !.onSaveDetailsCalls = @ + 1,
              !.addAlert = Append(@, [title |-> "Failed to save ClusterDeployment",
                                      message |-> e])]]

\* catch (error) { addAlert({ title: ..., message: error }); }
SaveCatchBlock(run, step, e) ==
  [step |-> step,
   run |-> [run EXCEPT !.status = "caught", !.failure = e,
              !.addAlert = Append(@, [title |-> "Failed to save ClusterDeployment",
                                      message |-> e])]]

\* handleSubmit up to its await: the call of onSaveDetails, which returns a
\* promise or throws (sync)
detailsHandleSubmit(v, sync) ==
  LET called == [NewSaveRun(v) EXCEPT !.onSaveDetailsCalls = 1]
      after == IF sync = ReturnsPromise
               THEN [step |-> currentStepId, run |-> called]
               ELSE SaveCatchBlock(called, currentStepId, sync)
  IN /\ currentStepId' = after.step
     /\ Proceed(runs, after.run)

\* Formik submitForm: validate, then onSubmit when nothing is wrong
submitForm ==
  IF getClusterDetailsValidationSchema(values)
  THEN /\ \E sync \in CallOutcomes : detailsHandleSubmit(values, sync)
       /\ hasErrors' = FALSE
  ELSE /\ hasErrors' = TRUE
       /\ UNCHANGED <<currentStepId, isSubmitting, runs, last>>

\* a handleOnNext that calls next() whatever dirty is
handleOnNextDirectly ==
  /\ currentStepId' = HostsSelectionStepId
  /\ UNCHANGED <<hasErrors, isSubmitting, runs, last>>

\* const handleOnNext = () => { if (dirty) submitForm(); else next(); }
handleOnNext ==
  IF dirty
  THEN submitForm
  ELSE /\ currentStepId' = HostsSelectionStepId
       /\ UNCHANGED <<hasErrors, isSubmitting, runs, last>>

\* a field changes: Formik validates the new values
ChangeName ==
  /\ DetailsShown
  /\ \E n \in ClusterNames \ {values.name} :
       /\ values' = [values EXCEPT !.name = n]
       /\ hasErrors' = ~getClusterDetailsValidationSchema(values')
  /\ UNCHANGED <<mounted, isSubmitting, runs, last, provider, alertsContext,
                 initialValues, currentStepId, bmcVars, routerVars, selectorVars>>

\* a field loses focus: Formik validates the values
BlurName ==
  /\ DetailsShown
  /\ hasErrors' = ~getClusterDetailsValidationSchema(values)
  /\ UNCHANGED <<mounted, formikVars, provider, alertsContext, initialValues,
                 currentStepId, bmcVars, routerVars, selectorVars>>

\* the footer's Next button: onNext={handleOnNext}
ClickNext ==
  /\ DetailsShown
  /\ FooterNextEnabled(isNextDisabled)
  /\ Len(runs) < MaxPending
  /\ handleOnNext
  /\ UNCHANGED <<mounted, values, provider, alertsContext, initialValues,
                 bmcVars, routerVars, selectorVars>>

\* the promise of onSaveDetails resolves
OnSaveDetailsResolved ==
  /\ mounted = "ClusterDeploymentDetailsStep"
  /\ \E i \in 1..Len(runs) :
       LET after == AfterSave(runs[i], currentStepId)
       IN /\ currentStepId' = after.step
          /\ Proceed(RemoveAt(runs, i), after.run)
  /\ UNCHANGED <<mounted, values, provider, alertsContext, initialValues, hasErrors,
                 bmcVars, routerVars, selectorVars>>

\* the promise of onSaveDetails rejects with e: the catch block
OnSaveDetailsRejected ==
  /\ mounted = "ClusterDeploymentDetailsStep"
  /\ \E i \in 1..Len(runs), e \in RejectionValues :
       LET after == SaveCatchBlock(runs[i], currentStepId, e)
       IN /\ currentStepId' = after.step
          /\ Proceed(RemoveAt(runs, i), after.run)
  /\ UNCHANGED <<mounted, values, provider, alertsContext, initialValues, hasErrors,
                 bmcVars, routerVars, selectorVars>>

DetailsNext ==
  \/ ChangeName \/ BlurName \/ ClickNext
  \/ OnSaveDetailsResolved \/ OnSaveDetailsRejected

InitDetailsStep ==
  /\ mounted = "ClusterDeploymentDetailsStep"
  /\ provider \in Providers
  /\ alertsContext = useAlerts(provider)
  /\ initialValues \in [name : {"", "cluster-1"}]
  /\ values = initialValues
  /\ hasErrors = FALSE
  /\ isSubmitting = FALSE
  /\ runs = <<>>
  /\ last = NoRun
  /\ currentStepId = DetailsStepId

(***************************************************************************)
(* The Router.  A pathname is its sequence of segments; a route's path is  *)
(* a sequence of segments in which ":clusterId" is a parameter.            *)
(***************************************************************************)
MaxSegments == 3    \* segments of a pathname

routeBasePath == <<"assisted-installer">>
Segments == {"assisted-installer", "clusters", "~new", "~NEW", "about"}
Pathnames(n) == UNION {[1..k -> Segments] : k \in 0..n}

\* path-to-regexp compares without regard to case (sensitive: false)
Lower(seg) == IF seg = "~NEW" THEN "~new" ELSE seg

Route(path, component) == [kind |-> "Route", path |-> path, component |-> component]
Redirect(to) == [kind |-> "Redirect", path |-> to, component |-> "Redirect"]

ChildRoutes == {<<>>, <<Route(routeBasePath \o <<"about">>, "About")>>}

\* matchPath without exact: the route's path matches a prefix of the
\* pathname, segment by segment; a parameter matches any one segment
matchPath(pathname, path) ==
  /\ Len(pathname) >= Len(path)
  /\ \A i \in 1..Len(path) :
       path[i] = ":clusterId" \/ Lower(pathname[i]) = Lower(path[i])

\* match.params.clusterId
clusterIdOf(pathname, path) ==
  LET at == {i \in 1..Len(path) : path[i] = ":clusterId"}
  IN IF at = {} THEN "" ELSE pathname[CHOOSE i \in at : TRUE]

\* a route table with the :clusterId route ahead of the ~new route
RouterElementsParamFirst ==
  <<Route(routeBasePath \o <<"clusters", ":clusterId">>, "ClusterPage"),
    Route(routeBasePath \o <<"clusters", "~new">>, "NewClusterPage"),
    Route(routeBasePath \o <<"clusters">>,
          IF isSingleClusterMode THEN "SingleCluster" ELSE "Clusters")>>
  \o children
  \o <<Redirect(routeBasePath \o <<"clusters">>)>>

\* the children of the Switch the Router renders, in order
RouterElements ==
  IF isSingleClusterMode
  THEN <<Route(routeBasePath \o <<"clusters", "~new">>, "NewClusterPage"),
         Route(routeBasePath \o <<"clusters", ":clusterId">>, "ClusterPage"),
         Route(routeBasePath \o <<"clusters">>, "SingleCluster")>>
       \o children
       \o <<Redirect(routeBasePath \o <<"clusters", "~new">>)>>
  ELSE <<Route(routeBasePath \o <<"clusters", "~new">>, "NewClusterPage"),
         Route(routeBasePath \o <<"clusters", ":clusterId">>, "ClusterPage"),
         Route(routeBasePath \o <<"clusters">>, "Clusters")>>
       \o children
       \o <<Redirect(routeBasePath \o <<"clusters">>)>>

\* Switch renders the first child that matches; a Redirect without from
\* matches every pathname
Switch(elements, pathname) ==
  LET matching == {i \in 1..Len(elements) :
                     elements[i].kind = "Redirect" \/ matchPath(pathname, elements[i].path)}
      first == CHOOSE i \in matching : \A j \in matching : i <= j
      el == elements[first]
  IN IF el.kind = "Redirect"
     THEN [component |-> "Redirect", clusterId |-> "", to |-> el.path]
     ELSE [component |-> el.component, clusterId |-> clusterIdOf(pathname, el.path),
           to |-> <<>>]

RouterShown == mounted = "Router"

\* the history moves to another pathname: the Switch renders again
Navigate ==
  /\ RouterShown
  /\ \E l \in Pathnames(MaxSegments) :
       /\ location' = l
       /\ view' = Switch(RouterElements, l)
  /\ UNCHANGED <<mounted, isSingleClusterMode, children, formikVars, bmcVars,
                 detailsVars, selectorVars>>

\* a rendered Redirect replaces the location with its target
FollowRedirect ==
  /\ RouterShown
  /\ view.component = "Redirect"
  /\ location' = view.to
  /\ view' = Switch(RouterElements, view.to)
  /\ UNCHANGED <<mounted, isSingleClusterMode, children, formikVars, bmcVars,
                 detailsVars, selectorVars>>

RouterNext == Navigate \/ FollowRedirect

InitRouter ==
  /\ mounted = "Router"
  /\ isSingleClusterMode \in BOOLEAN
  /\ children \in ChildRoutes
  /\ location \in Pathnames(MaxSegments)
  /\ view = Switch(RouterElements, location)

(***************************************************************************)
(* The agent-location selector helpers.                                    *)
(***************************************************************************)
MaxLocations == 3   \* locations handed to getAgentLocationMatchExpression

AGENT_LOCATION_LABEL_KEY == "agent-install.openshift.io/location"
LocationNames == {"dc-east", "dc-west"}
Arr(items) == [t |-> "array", items |-> items]
NotRun == [t |-> "not run"]
LocationLists(n) ==
  {Undefined} \cup {Arr(l) : l \in UNION {[1..k -> LocationNames] : k \in 0..n}}

\* a builder without the length test
getAgentLocationMatchExpressionUnguarded(locs) ==
  IF locs # Undefined
  THEN Arr(<<[key |-> AGENT_LOCATION_LABEL_KEY, operator |-> "In", values |-> locs]>>)
  ELSE Undefined

\* locations?.length ? [{ key, operator: 'In', values: locations }] : undefined
getAgentLocationMatchExpression(locs) ==
  IF locs # Undefined /\ Len(locs.items) # 0
  THEN Arr(<<[key |-> AGENT_LOCATION_LABEL_KEY, operator |-> "In", values |-> locs]>>)
  ELSE Undefined

\* (expressions = []) => expressions.find((expr) => expr.key === KEY)?.values || []
getLocationsFromMatchExpressions(exprs) ==
  LET list == IF exprs = Undefined THEN <<>> ELSE exprs.items
      hits == {i \in 1..Len(list) : list[i].key = AGENT_LOCATION_LABEL_KEY}
  IN IF hits = {}
     THEN Arr(<<>>)
     ELSE list[CHOOSE i \in hits : \A j \in hits : i <= j].values

SelectorsShown == mounted = "selectors"

BuildExpression ==
  /\ SelectorsShown
  /\ expressions = NotRun
  /\ expressions' = getAgentLocationMatchExpression(locations)
  /\ UNCHANGED <<mounted, locations, found, formikVars, bmcVars, detailsVars, routerVars>>

ReadLocations ==
  /\ SelectorsShown
  /\ expressions # NotRun /\ found = NotRun
  /\ found' = getLocationsFromMatchExpressions(expressions)
  /\ UNCHANGED <<mounted, locations, expressions, formikVars, bmcVars, detailsVars,
                 routerVars>>

SelectorsNext == BuildExpression \/ ReadLocations

InitSelectors ==
  /\ mounted = "selectors"
  /\ locations \in LocationLists(MaxLocations)
  /\ expressions = NotRun
  /\ found = NotRun

(***************************************************************************)
(* The specification: one of the components is mounted.                    *)
(***************************************************************************)
NoForm == values = Unmounted /\ isSubmitting = FALSE /\ runs = <<>> /\ last = NoRun
NoBMCForm == hasDHCP = FALSE /\ error = Undefined
NoDetailsStep ==
  /\ provider = "none" /\ alertsContext = Unmounted /\ initialValues = Unmounted
  /\ hasErrors = FALSE /\ currentStepId = ""
NoRouter ==
  isSingleClusterMode = FALSE /\ children = <<>> /\ location = <<>> /\ view = Unmounted
NoSelectors == locations = Unmounted /\ expressions = Unmounted /\ found = Unmounted

Init ==
  \/ InitBMCForm /\ NoDetailsStep /\ NoRouter /\ NoSelectors
  \/ InitDetailsStep /\ NoBMCForm /\ NoRouter /\ NoSelectors
  \/ InitRouter /\ NoForm /\ NoBMCForm /\ NoDetailsStep /\ NoSelectors
  \/ InitSelectors /\ NoForm /\ NoBMCForm /\ NoDetailsStep /\ NoRouter

Next == BmcNext \/ DetailsNext \/ RouterNext \/ SelectorsNext

Spec == Init /\ [][Next]_vars

(***************************************************************************)
(* handleSubmit at its own interface: Formik's onSubmit, handed any value  *)
(* of type AddBmcValues, once.                                             *)
(***************************************************************************)
InitHandleSubmit ==
  /\ mounted = "BMCForm"
  /\ hasDHCP \in BOOLEAN
  /\ values \in AddBmcValues(MaxInputRows)
  /\ error = Undefined
  /\ isSubmitting = FALSE
  /\ runs = <<>>
  /\ last = NoRun
  /\ NoDetailsStep /\ NoRouter /\ NoSelectors

CallHandleSubmit ==
  /\ runs = <<>> /\ last = NoRun
  /\ \E sync \in CallOutcomes : handleSubmit(values, sync)
  /\ UNCHANGED <<mounted, hasDHCP, values, detailsVars, routerVars, selectorVars>>

NextHandleSubmit == CallHandleSubmit \/ OnCreateResolved \/ OnCreateRejected

SpecHandleSubmit == InitHandleSubmit /\ [][NextHandleSubmit]_vars

(***************************************************************************)
(* The claims.                                                             *)
(***************************************************************************)
\* every invocation of the mounted form's handleSubmit the state remembers
AllRuns == {runs[i] : i \in 1..Len(runs)} \cup (IF last = NoRun THEN {} ELSE {last})

BmcMounted == mounted = "BMCForm"
DetailsMounted == mounted = "ClusterDeploymentDetailsStep"

\* C1: whenever the onCreate call of a BMCForm submission fails, the catch
\* block handles it: setError is called with the failure's message, onClose
\* is not called for that submission, and nothing propagates out of
\* handleSubmit (its promise is not rejected).
C1_FailedCreateIsCaught ==
  BmcMounted =>
    \A r \in AllRuns :
      r.failedIn = "onCreate" =>
        /\ r.status = "caught"
        /\ r.onCloseCalls = 0
        /\ r.setError = <<Undefined, Message(r.failure).value>>

\* what each run of the details step's handleSubmit has called
C2_RunsAreSound ==
  DetailsMounted =>
    \A r \in AllRuns :
      /\ r.setCurrentStepId # <<>> =>
           r.status = "done" /\ r.setCurrentStepId = <<HostsSelectionStepId>>
      /\ r.status = "caught" =>
           /\ r.addAlert = <<[title |-> "Failed to save ClusterDeployment",
                              message |-> r.failure]>>
           /\ r.setCurrentStepId = <<>>
      /\ r.status # "caught" => r.addAlert = <<>>

\* a step in which onSaveDetails fails: its promise rejects, or it throws
\* within the press of Next
C2_FailedSaveStep == OnSaveDetailsRejected \/ (ClickNext /\ dirty /\ runs' = runs)

\* C2: a submission of the details step calls setCurrentStepId (with
\* 'hosts-selection') only when its onSaveDetails resolved; a submission whose
\* onSaveDetails failed calls addAlert once, with the title 'Failed to save
\* ClusterDeployment' and the failure as message, never calls
\* setCurrentStepId, and the step in which it fails leaves currentStepId alone.
C2_SaveFailureStays ==
  /\ []C2_RunsAreSound
  /\ [][C2_FailedSaveStep => currentStepId' = currentStepId]_vars

C2_Witness ==
  /\ DetailsMounted
  /\ last # NoRun /\ last.status = "caught" /\ last.failure = Err("Request failed")
  /\ currentStepId = DetailsStepId

\* C3, as claimed: every run of BMCForm.handleSubmit invokes onCreate exactly
\* once and every run of the details step's handleSubmit invokes
\* onSaveDetails exactly once.
C3_ExactlyOneCall ==
  /\ BmcMounted => \A r \in AllRuns : r.onCreateCalls = 1
  /\ DetailsMounted => \A r \in AllRuns : r.onSaveDetailsCalls = 1

\* the external calls each run has made
C3_CallsPerRun ==
  /\ BmcMounted =>
       \A r \in AllRuns :
         r.onCreateCalls = (IF r.failedIn = "getNMState" THEN 0 ELSE 1)
  /\ DetailsMounted => \A r \in AllRuns : r.onSaveDetailsCalls = 1

\* C3, amended: a run of BMCForm.handleSubmit invokes onCreate at most once:
\* exactly once, unless getNMState threw, and then not at all; a run of the
\* details step's handleSubmit invokes onSaveDetails exactly once; neither
\* retries, and a run begins only in a step of the Create or the Next button.
C3_AtMostOneCallNoRetry ==
  /\ []C3_CallsPerRun
  /\ [][Len(runs') > Len(runs) => ClickCreate \/ ClickNext]_vars

C3_Witness ==
  /\ BmcMounted
  /\ last # NoRun /\ last.status = "caught" /\ last.failedIn = "onCreate"
  /\ last.onCreateCalls = 1

\* C4: useAlerts throws whenever the component calling it has no
\* AlertsContextProvider above it, and gives the provider's value when it has.
C4_UseAlertsThrowsOutsideProvider ==
  DetailsMounted =>
    /\ provider = "none" => alertsContext.threw
    /\ provider = "AlertsContextProvider" =>
         ~alertsContext.threw /\ alertsContext.value = AlertsContextProvider

\* C5: for a non-empty list of locations L,
\* getLocationsFromMatchExpressions(getAgentLocationMatchExpression(L)) is L;
\* for an empty or undefined L, getAgentLocationMatchExpression gives
\* undefined and getLocationsFromMatchExpressions of that gives the empty list.
C5_LocationsRoundTrip ==
  mounted = "selectors" =>
    LET nonEmpty == locations # Undefined /\ locations.items # <<>>
    IN /\ (expressions # NotRun /\ ~nonEmpty) => expressions = Undefined
       /\ (expressions # NotRun /\ nonEmpty) => expressions # Undefined
       /\ found # NotRun => found = (IF nonEmpty THEN locations ELSE Arr(<<>>))

C5_Witness ==
  /\ mounted = "selectors"
  /\ found = Arr(<<"dc-west", "dc-east">>)

IsPrefix(p, l) == Len(l) >= Len(p) /\ SubSeq(l, 1, Len(p)) = p

\* the pathname lies under neither <routeBasePath>/clusters nor a child route
C6_NoRouteMatches ==
  /\ ~IsPrefix(routeBasePath \o <<"clusters">>, location)
  /\ \A i \in 1..Len(children) : ~IsPrefix(children[i].path, location)

\* C6: in both modes the pathname <routeBasePath>/clusters/~new renders
\* NewClusterPage, and ClusterPage is never rendered with clusterId '~new'; a
\* pathname no route matches (the child routes included) renders the
\* Redirect, to <routeBasePath>/clusters/~new in single-cluster mode and to
\* <routeBasePath>/clusters otherwise.
C6_NewClusterRoute ==
  mounted = "Router" =>
    /\ location = routeBasePath \o <<"clusters", "~new">> =>
         view.component = "NewClusterPage"
    /\ view.component = "ClusterPage" => view.clusterId # "~new"
    /\ C6_NoRouteMatches =>
         /\ view.component = "Redirect"
         /\ view.to = routeBasePath \o
              (IF isSingleClusterMode THEN <<"clusters", "~new">> ELSE <<"clusters">>)

C6_Witness ==
  /\ mounted = "Router"
  /\ isSingleClusterMode
  /\ location = routeBasePath \o <<"clusters", "~new">>
  /\ view.component = "NewClusterPage"

\* C7: a run of BMCForm.handleSubmit calls onClose at most once, and exactly
\* when its onCreate call resolved: a run that awaits onCreate, or whose
\* onCreate or getNMState failed, has not called onClose.
C7_CloseOnlyAfterCreate ==
  BmcMounted =>
    \A r \in AllRuns :
      /\ r.onCloseCalls = (IF r.status = "done" THEN 1 ELSE 0)
      /\ r.status = "done" => r.failedIn = "none" /\ r.onCreateCalls = 1

C7_Witness ==
  /\ BmcMounted
  /\ last # NoRun /\ last.status = "done" /\ last.onCloseCalls = 1

\* what a step may do to currentStepId
C8_NextStep ==
  /\ (ClickNext /\ ~dirty) =>
       /\ currentStepId' = HostsSelectionStepId
       /\ runs' = runs /\ last' = last
  /\ (ClickNext /\ dirty) =>
       /\ currentStepId' = currentStepId
       /\ \/ runs' = Append(runs, [NewSaveRun(values) EXCEPT !.onSaveDetailsCalls = 1])
          \/ runs' = runs /\ last'.status = "caught" /\ last'.onSaveDetailsCalls = 1
  /\ (DetailsMounted /\ dirty /\ currentStepId' # currentStepId) =>
       /\ OnSaveDetailsResolved
       /\ last'.status = "done"

\* C8: a press of Next on a form that is not dirty sets the step to
\* 'hosts-selection' in that step, starting no run of handleSubmit; a press of
\* Next on a dirty form starts a run, which calls onSaveDetails, and leaves
\* the step alone; while the form is dirty the step changes only in the
\* step in which onSaveDetails resolves.
C8_NextAdvances == [][C8_NextStep]_vars

C8_Witness ==
  /\ DetailsMounted
  /\ dirty
  /\ currentStepId = HostsSelectionStepId
  /\ last # NoRun /\ last.status = "done"

\* the rows that have both a macAddress and a name, in their order
RECURSIVE RowsWithBoth(_)
RowsWithBoth(rows) ==
  IF rows = <<>> THEN <<>>
  ELSE IF Head(rows).macAddress = "" \/ Head(rows).name = ""
       THEN RowsWithBoth(Tail(rows))
       ELSE <<Head(rows)>> \o RowsWithBoth(Tail(rows))

\* C9: the second argument of onCreate is undefined when hasDHCP is true,
\* whatever the values; when hasDHCP is false it is the NMStateConfig of
\* getNMState, whose spec.interfaces are the macMapping rows that have both a
\* macAddress and a name, in their order.
C9_NMStateArgument ==
  BmcMounted =>
    \A r \in AllRuns :
      r.onCreateCalls = 1 =>
        IF hasDHCP
        THEN r.nmState = Undefined
        ELSE /\ r.nmState.t = "NMStateConfig"
             /\ r.nmState.interfaces = RowsWithBoth(r.values.macMapping)

C9_Witness ==
  /\ BmcMounted /\ ~hasDHCP
  /\ last # NoRun /\ last.status = "done"
  /\ Len(last.values.macMapping) = 2
  /\ last.nmState.interfaces = <<last.values.macMapping[2]>>

\* C10: at most one run of a form's handleSubmit awaits its external call at
\* a time, and while one does the form is submitting and its Create or Next
\* control is disabled.
C10_OneSubmissionInFlight ==
  /\ BmcMounted => Len(runs) <= 1 /\ (Len(runs) = 1 => isSubmitting /\ CreateDisabled)
  /\ DetailsMounted =>
       Len(runs) <= 1 /\ (Len(runs) = 1 => isSubmitting /\ isNextDisabled)

C10_Witness ==
  /\ BmcMounted
  /\ Len(runs) = 1
  /\ validationSchema(values)

\* a step in which a submission of the BMC form ends in a failure: the
\* promise of onCreate rejects, or getNMState or onCreate throws within the
\* press of Create
C11_SubmissionFails ==
  \/ OnCreateRejected
  \/ ClickCreate /\ validationSchema(values) /\ runs' = runs

\* a step in which a submission of the BMC form begins and reaches its await
C11_SubmissionStarts == ClickCreate /\ Len(runs') = Len(runs) + 1

\* the error state is never shown while a submission is in flight, and is
\* shown only when the submission that ended last failed
C11_ShownErrorIsLatest ==
  BmcMounted =>
    /\ runs # <<>> => ~Truthy(error)
    /\ Truthy(error) => last # NoRun /\ last.failedIn # "none"

\* what a step does to the error state: a submission clears it on the way to
\* onCreate, a failed one sets it, a successful one leaves it clear, and
\* between submissions only the close button of the alert changes it
C11_ErrorStep ==
  BmcMounted =>
    /\ C11_SubmissionStarts => error' = Undefined
    /\ C11_SubmissionFails => Truthy(error')
    /\ OnCreateResolved => ~Truthy(error')
    /\ error' # error =>
         \/ ClickCreate \/ OnCreateRejected
         \/ DismissError /\ error' = Undefined

\* C11: the error the BMC form displays reflects only the most recent
\* submission: every submission clears the error state before onCreate is
\* invoked, so no error is shown while a submission is in flight; once a
\* submission has ended the error is shown exactly when that submission
\* failed, until the user dismisses it or the next submission begins.
C11_ErrorReflectsLatest == []C11_ShownErrorIsLatest /\ [][C11_ErrorStep]_vars
====
